---- MODULE Spec2Model ----
(***************************************************************************)
(* Model of the smart-inverter telemetry agent in its two variants:        *)
(*   "tcp"    src/InvertertoAwsIotCore.py  (Modbus TCP  + awscrt MQTT)      *)
(*   "rs485"  src/rasp.py                  (Modbus RTU  + paho MQTT)        *)
(*                                                                         *)
(* Numbers.  Scale factors are 1, 0.1 and 0.01; the model keeps every      *)
(* scaled value in hundredths, so the scale 0.1 is written 10, 0.01 is     *)
(* written 1 and 1 is written 100, and a stored pv value v stands for      *)
(* v / 100.  The status fields of the tcp variant are unscaled integers.   *)
(*                                                                         *)
(* Python values.  None is the empty tuple <<>>, any other value x is the  *)
(* one-element tuple <<x>>.  A dict is a function whose DOMAIN is the set  *)
(* of its keys.                                                            *)
(***************************************************************************)
EXTENDS Integers, Sequences, FiniteSets, TLC

\* ------------------------------------------------------------------ bounds
\* The device's register bank is one of the images 0..MaxImage.
MaxImage == 1

\* ------------------------------------------------------------- register maps
\* registers_map of HitachiInverterClient.get_pv_data, in dict order.
PvRegistersTcp ==
  << [name |-> "dc_voltage",   address |-> 40001, count |-> 1, scale |-> 10],
     [name |-> "dc_current",   address |-> 40002, count |-> 1, scale |-> 1],
     [name |-> "dc_power",     address |-> 40003, count |-> 2, scale |-> 100],
     [name |-> "ac_voltage",   address |-> 40010, count |-> 1, scale |-> 10],
     [name |-> "ac_current",   address |-> 40011, count |-> 1, scale |-> 1],
     [name |-> "ac_power",     address |-> 40012, count |-> 2, scale |-> 100],
     [name |-> "frequency",    address |-> 40015, count |-> 1, scale |-> 1],
     [name |-> "energy_today", address |-> 40020, count |-> 2, scale |-> 10],
     [name |-> "energy_total", address |-> 40022, count |-> 2, scale |-> 10],
     [name |-> "temperature",  address |-> 40030, count |-> 1, scale |-> 10],
     [name |-> "status",       address |-> 40040, count |-> 1, scale |-> 100] >>

\* status_registers of HitachiInverterClient.get_system_status, in dict order.
StatusRegistersTcp ==
  << [name |-> "operating_state", address |-> 40100, count |-> 1],
     [name |-> "fault_code",      address |-> 40101, count |-> 1],
     [name |-> "warning_code",    address |-> 40102, count |-> 1] >>

\* registers_map of HitachiInverterRS485.get_data, in dict order.
PvRegistersRs485 ==
  << [name |-> "dc_voltage", address |-> 40001, count |-> 1, scale |-> 10],
     [name |-> "dc_current", address |-> 40002, count |-> 1, scale |-> 1],
     [name |-> "ac_voltage", address |-> 40010, count |-> 1, scale |-> 10],
     [name |-> "ac_current", address |-> 40011, count |-> 1, scale |-> 1],
     [name |-> "ac_power",   address |-> 40012, count |-> 2, scale |-> 100],
     [name |-> "frequency",  address |-> 40015, count |-> 1, scale |-> 1] >>

Variants == {"tcp", "rs485"}

PvRegisters(v) == IF v = "tcp" THEN PvRegistersTcp ELSE PvRegistersRs485

\* The rs485 variant has no get_system_status.
StatusRegisters(v) == IF v = "tcp" THEN StatusRegistersTcp ELSE << >>

Names(map) == { map[i].name : i \in 1..Len(map) }

\* ------------------------------------------------------------ Python values
None == << >>

Val(x) == << x >>

EmptyDict == [k \in {} |-> None]

\* d[k] = v
DictSet(d, k, v) == [x \in (DOMAIN d) \cup {k} |-> IF x = k THEN v ELSE d[x]]

\* Python ints are unbounded; the values here pass 2^31, so a number is kept
\* as its digits in base 2^WordBits, least significant first, with no leading
\* zero digit (zero is << 0 >>).  WordBits is the width of a register word and
\* the shift distance of the two-register composition.
WordBits == 16

Base == 2 ^ WordBits

RECURSIVE ToBig(_)
ToBig(n) == IF n < Base THEN << n >> ELSE << n % Base >> \o ToBig(n \div Base)

RECURSIVE BigNorm(_)
BigNorm(b) ==
  IF Len(b) > 1 /\ b[Len(b)] = 0 THEN BigNorm(SubSeq(b, 1, Len(b) - 1)) ELSE b

Digit(b, i) == IF i <= Len(b) THEN b[i] ELSE 0

RECURSIVE MulCarry(_, _, _)
MulCarry(b, m, carry) ==
  IF b = << >> THEN (IF carry = 0 THEN << >> ELSE ToBig(carry))
  ELSE LET t == b[1] * m + carry
       IN  << t % Base >> \o MulCarry(Tail(b), m, t \div Base)

\* b * m for a machine-sized factor m.
BigMul(b, m) == BigNorm(MulCarry(b, m, 0))

RECURSIVE AddCarry(_, _, _)
AddCarry(a, b, carry) ==
  IF a = << >> /\ b = << >> THEN (IF carry = 0 THEN << >> ELSE << carry >>)
  ELSE LET t == Digit(a, 1) + Digit(b, 1) + carry
       IN  << t % Base >>
             \o AddCarry(IF a = << >> THEN a ELSE Tail(a),
                         IF b = << >> THEN b ELSE Tail(b), t \div Base)

BigAdd(a, b) == BigNorm(AddCarry(a, b, 0))

\* x | y on machine-sized non-negative ints.
RECURSIVE BitOr(_, _)
BitOr(a, b) ==
  IF a = 0 THEN b
  ELSE IF b = 0 THEN a
  ELSE (IF a % 2 = 1 \/ b % 2 = 1 THEN 1 ELSE 0) + 2 * BitOr(a \div 2, b \div 2)

\* Python's x << n and x | y.
ShiftLeft(x, n) ==
  BigNorm([i \in 1..(n \div WordBits) |-> 0] \o MulCarry(x, 2 ^ (n % WordBits), 0))

Or(x, y) ==
  LET n == IF Len(x) > Len(y) THEN Len(x) ELSE Len(y)
  IN  BigNorm([i \in 1..n |-> BitOr(Digit(x, i), Digit(y, i))])

\* ------------------------------------------------------------------ device
\* The words the device serves.  Image 0 is an all-zero bank; image i > 0
\* serves the sample words cyclically, shifted by i, so that the register
\* pairs (0,1) (1,2) (2,65535) (65535,65535) (65535,32768) (32768,0) occur
\* at the two-register entries of the maps.
SampleWords == << 0, 1, 2, 65535, 65535, 32768 >>

DeviceWord(img, a) ==
  IF img = 0 THEN 0 ELSE SampleWords[((img + a) % Len(SampleWords)) + 1]

\* The register words a well-formed response to (address, count) carries.
DeviceRegisters(img, address, count) ==
  [i \in 1..count |-> DeviceWord(img, address + i - 1)]

\* What one request can end in: a response carrying registers, an exception
\* response of the device, or an I/O error (timeout, reset, framing).
ReadOutcomes == {"response", "error", "raise"}

\* client.read_holding_registers(address, count, unit=...) of the Modbus
\* library: raises when there is no client object (attribute access on None)
\* or no open connection, else ends as the device and the line decide.
LibRead(client, link, img, address, count, outcome) ==
  IF client = "None" \/ link # "Connected" \/ outcome = "raise"
    THEN [kind |-> "raise", registers |-> << >>]
  ELSE IF outcome = "error"
    THEN [kind |-> "error", registers |-> << >>]
  ELSE [kind |-> "response", registers |-> DeviceRegisters(img, address, count)]

\* ------------------------------------------------------------- device link
\* The result of a call: a return value, or an exception leaving the call.
Return(x) == [raised |-> FALSE, value |-> x]

Raised == [raised |-> TRUE, value |-> None]

\* read_registers without its `except Exception`: the library's exception
\* leaves the call.
read_registers_unguarded(client, link, img, address, count, outcome) ==
  LET result == LibRead(client, link, img, address, count, outcome)
  IN  IF result.kind = "raise" THEN Raised
      ELSE IF result.kind = "error" THEN Return(None)
      ELSE Return(Val(result.registers))

\* read_registers of both classes (function_code is always 3): every
\* exception of the library call and every exception response become None.
read_registers(client, link, img, address, count, outcome) ==
  LET result == LibRead(client, link, img, address, count, outcome)
  IN  IF result.kind = "raise" THEN Return(None)
      ELSE IF result.kind = "error" THEN Return(None)
      ELSE Return(Val(result.registers))

\* The two-register composition with the words in the other order.
DecodeValueLowWordFirst(registers, count, scale) ==
  IF count = 1 THEN BigMul(ToBig(registers[1]), scale)
  ELSE IF count = 2
    THEN BigMul(Or(ShiftLeft(ToBig(registers[2]), 16), ToBig(registers[1])), scale)
  ELSE registers

\* The scaled value of one register-map entry (lines 81-86 / 68-73).
DecodeValue(registers, count, scale) ==
  IF count = 1 THEN BigMul(ToBig(registers[1]), scale)
  ELSE IF count = 2
    THEN BigMul(Or(ShiftLeft(ToBig(registers[1]), 16), ToBig(registers[2])), scale)
  ELSE registers

\* Whether the collector takes the branch that decodes: the tcp variant tests
\* `registers is not None`, the rs485 variant tests the truth of `regs`.
HasRegisters(v, r) ==
  IF v = "tcp" THEN r # None ELSE r # None /\ Len(r[1]) > 0

\* `value or None`: a decoded zero is stored as None.
PvValueZeroAsNone(v, e, r) ==
  IF HasRegisters(v, r) /\ DecodeValue(r[1], e.count, e.scale) # ToBig(0)
    THEN Val(DecodeValue(r[1], e.count, e.scale))
  ELSE None

\* The value the pv collector stores for entry e given read_registers' return.
PvValue(v, e, r) ==
  IF HasRegisters(v, r) THEN Val(DecodeValue(r[1], e.count, e.scale)) ELSE None

\* The loop body without its else branch: a failed read stores nothing.
StorePvSkipsFailed(v, d, e, r) ==
  IF HasRegisters(v, r) THEN DictSet(d, e.name, PvValue(v, e, r)) ELSE d

\* A failed read voids the fields collected before it.
StorePvVoidsOnFailure(v, d, e, r) ==
  IF HasRegisters(v, r) THEN DictSet(d, e.name, PvValue(v, e, r))
  ELSE [k \in (DOMAIN d) \cup {e.name} |-> None]

\* The body of the pv collector's loop after the read: pv_data[param] = ...
StorePv(v, d, e, r) == DictSet(d, e.name, PvValue(v, e, r))

\* The value get_system_status stores for entry e.
StatusValue(e, r) ==
  IF r # None THEN Val(IF e.count = 1 THEN r[1][1] ELSE r[1]) ELSE None

\* The body of get_system_status' loop after the read.
StoreStatus(d, e, r) == DictSet(d, e.name, StatusValue(e, r))

\* What the request for entry e returned, as the device link saw it.
RawReading(c, link, img, address, count, outcome) ==
  LET result == LibRead(c, link, img, address, count, outcome)
  IN  IF result.kind = "response" THEN Val(result.registers) ELSE None

\* -------------------------------------------------------------------- state
VARIABLES
  variant,        \* which program runs: "tcp" or "rs485"
  caller,         \* "main": main() drives the links; "api": a caller of the
                  \* device-link class drives it method by method
  pc,             \* the position of the thread of control
  client,         \* self.client of the device link: "None" or "client"
  devLink,        \* the device connection: "Disconnected" or "Connected"
  mqttLink,       \* the MQTT session: "Disconnected" or "Connected"
  bank,           \* the register image the device serves
  idx,            \* position of the collector's for loop in its register map
  pv_data,        \* the dict get_pv_data / get_data is filling
  status_data,    \* the dict get_system_status is filling
  timestamp,      \* None, or Val(t): time.time() as the number of register
                  \* reads issued in the cycle before it was taken
  message_json,   \* None, or Val(the serialized payload)
  reads,          \* the requests issued in this cycle, in order
  raw,            \* per field read in this cycle: the registers its own
                  \* request returned, or None when that request failed
  pubState,       \* the publish of this cycle: "none", "inflight", "acked",
                  \* "failed" (reported by the transport) or "raised"
  pending,        \* the exception the finally block will re-raise, or "none"
  exitCode,       \* -1 while the process runs, else its exit status
  stopRequested,  \* an operator stop signal (KeyboardInterrupt) has arrived
  stopAt,         \* where each stop signal found main(): << pc, idx >> per signal
  lastCall,       \* the latest connect() / disconnect() on the device link and
                  \* what it did, NoCall once another method has been called
  startFail,      \* "none", or the link whose connect failed in Starting
  connectOk,      \* connect() of the device link has succeeded at least once
  ioIssued,       \* a register read or a publish has been issued
  devClosed,      \* inverter.disconnect() has been invoked
  mqttClosed      \* the transport's disconnect() has been invoked

linkVars  == << client, devLink, mqttLink, connectOk, lastCall >>
cycleVars == << idx, pv_data, status_data, timestamp, message_json, reads, raw >>
endVars   == << pending, exitCode, startFail, devClosed, mqttClosed >>
vars == << variant, caller, pc, bank, linkVars, cycleVars, pubState, endVars,
           stopRequested, stopAt, ioIssued >>

StartingPcs == {"mqtt_connect", "inv_connect"}
CollectPcs  == {"ts", "pv", "status"}
RunningPcs  == CollectPcs \cup {"dumps", "publish", "sleep"}
DrainingPcs == {"finally_dev", "finally_mqtt"}

\* The first statement of main() that touches a link: the tcp variant connects
\* the transport first (line 148), the rs485 variant the inverter (line 104).
FirstPc(v) == IF v = "tcp" THEN "mqtt_connect" ELSE "inv_connect"

\* The first step of a cycle: collect_all_data evaluates time.time() first
\* (line 112); the rs485 loop body starts with get_data() (line 112).
CycleStart(v) == IF v = "tcp" THEN "ts" ELSE "pv"

\* The cycle's locals when no cycle has bound them.
NoCycle ==
  /\ idx' = 1
  /\ pv_data' = EmptyDict
  /\ status_data' = EmptyDict
  /\ timestamp' = None
  /\ message_json' = None
  /\ reads' = << >>
  /\ raw' = EmptyDict

NoCall == [op |-> "none"]

InitCommon ==
  /\ variant \in Variants
  /\ bank \in 0..MaxImage
  /\ mqttLink = "Disconnected"
  /\ devLink = "Disconnected"
  /\ connectOk = FALSE
  /\ idx = 1
  /\ pv_data = EmptyDict
  /\ status_data = EmptyDict
  /\ timestamp = None
  /\ message_json = None
  /\ reads = << >>
  /\ raw = EmptyDict
  /\ pubState = "none"
  /\ pending = "none"
  /\ exitCode = -1
  /\ stopRequested = FALSE
  /\ stopAt = << >>
  /\ lastCall = NoCall
  /\ startFail = "none"
  /\ ioIssued = FALSE
  /\ devClosed = FALSE
  /\ mqttClosed = FALSE

\* main() is entered.  HitachiInverterClient.__init__ sets self.client = None;
\* HitachiInverterRS485.__init__ builds the serial client.
Init ==
  /\ InitCommon
  /\ caller = "main"
  /\ pc = FirstPc(variant)
  /\ client = IF variant = "tcp" THEN "None" ELSE "client"

\* ---------------------------------------------------------------- exceptions
\* main()'s handlers: `except KeyboardInterrupt` in both variants, and
\* `except Exception` in the tcp variant only.
Caught(v, exc) == exc = "KeyboardInterrupt" \/ (v = "tcp" /\ exc = "Exception")

\* The finally block with the transport's disconnect first.
FinallyEntryTransport == "finally_mqtt"

\* The first statement of main()'s finally block: inverter.disconnect().
FinallyEntry == "finally_dev"

\* An uncaught exception ends the process with a non-zero status.
Crash ==
  /\ pc' = "done"
  /\ exitCode' = 1

\* An exception leaves the statement at pc.  Inside main()'s try block it ends
\* the while loop: a handled one is logged, an unhandled one stays pending, and
\* the finally block runs.  Anywhere else in main() it is uncaught.  A caller
\* of the class that is not main() sees the exception as it is.
Raise(exc) ==
  IF caller = "api"
    THEN /\ pc' = "raised"
         /\ UNCHANGED << pending, exitCode >>
  ELSE IF pc \in RunningPcs
    THEN /\ pc' = FinallyEntry
         /\ pending' = IF Caught(variant, exc) THEN "none" ELSE exc
         /\ UNCHANGED exitCode
  ELSE /\ Crash
       /\ UNCHANGED pending

\* ------------------------------------------------------------------ Starting
ConnectOutcomes == {"ok", "refused", "raise"}

\* connect() of the device link, given how the library's connect ends.  The
\* tcp variant builds a new client and turns every exception into False
\* (lines 26-37); the rs485 variant has no try (lines 33-38).
connect(v, outcome) ==
  IF outcome = "ok" THEN Return(TRUE)
  ELSE IF outcome = "refused" THEN Return(FALSE)
  ELSE IF v = "tcp" THEN Return(FALSE)
  ELSE Raised

\* How the library's connect() ends on the client object connect() calls it
\* on.  The tcp variant calls it on the ModbusTcpClient it has just built
\* (lines 27-32), which is never open yet; the rs485 variant calls it on the
\* one ModbusSerialClient of __init__ (line 33), which answers True at once
\* when its port is already open.
LibConnect(v, link, outcome) ==
  IF v = "rs485" /\ link = "Connected" THEN "ok" ELSE outcome

\* What a call of connect() did: whether the link was Connected before it,
\* whether self.client was rebound to a new client object (tcp line 27, the
\* old object is dropped without close()), whether a connection was opened.
ConnectCall(v, c, link, outcome) ==
  [op |-> "connect",
   wasConnected |-> (link = "Connected"),
   replaced |-> (v = "tcp" /\ c # "None"),
   opened |-> (outcome = "ok" /\ (v = "tcp" \/ link # "Connected")),
   raised |-> connect(v, outcome).raised,
   result |-> connect(v, outcome).value]

\* The effect of connect() on the device link's own state: self.client is the
\* client object of this call, and the link is what that object's connection
\* is.
ConnectEffect(outcome) ==
  /\ client' = "client"
  /\ devLink' = IF outcome = "ok" THEN "Connected"
                ELSE IF variant = "tcp" THEN "Disconnected"
                ELSE devLink
  /\ connectOk' = (connectOk \/ outcome = "ok")
  /\ lastCall' = ConnectCall(variant, client, devLink, outcome)

\* Where main() goes once inverter.connect() has returned True.
AfterInverterConnect(v) == IF v = "tcp" THEN CycleStart(v) ELSE "mqtt_connect"

\* Where main() goes once the transport is connected.
AfterMqttConnect(v) == IF v = "tcp" THEN "inv_connect" ELSE CycleStart(v)

\* main() without the early return.
NeverReturnsOnConnectResult(connected) == FALSE

\* `if not inverter.connect(): return`: whether main() returns.
ReturnsOnConnectResult(connected) == ~connected

\* inverter = ...; if not inverter.connect(): return (tcp 153-157, rs485 103-105).
InverterConnect ==
  /\ caller = "main"
  /\ pc = "inv_connect"
  /\ \E o \in ConnectOutcomes :
       LET outcome == LibConnect(variant, devLink, o)
           r == connect(variant, outcome)
       IN  /\ ConnectEffect(outcome)
           /\ IF r.raised
                THEN /\ Raise("Exception")
                     /\ startFail' = "device"
              ELSE /\ startFail' = IF r.value THEN startFail ELSE "device"
                   /\ UNCHANGED pending
                   /\ IF ReturnsOnConnectResult(r.value)
                        THEN /\ pc' = "done"
                             /\ exitCode' = 0
                        ELSE /\ pc' = AfterInverterConnect(variant)
                             /\ UNCHANGED exitCode
  /\ UNCHANGED << variant, caller, bank, mqttLink, cycleVars, pubState,
                  devClosed, mqttClosed, stopRequested, stopAt, ioIssued >>

\* mqtt_connection.connect().result() (tcp 148-149) and create_mqtt_client
\* (rs485 107, 80-89): a failed connect raises, outside main()'s try block.
MqttConnect ==
  /\ caller = "main"
  /\ pc = "mqtt_connect"
  /\ \E outcome \in {"ok", "raise"} :
       IF outcome = "ok"
         THEN /\ mqttLink' = "Connected"
              /\ pc' = AfterMqttConnect(variant)
              /\ UNCHANGED << pending, exitCode, startFail >>
       ELSE /\ Raise("Exception")
            /\ startFail' = "transport"
            /\ UNCHANGED mqttLink
  /\ UNCHANGED << variant, caller, bank, client, devLink, connectOk, lastCall,
                  cycleVars, pubState, devClosed, mqttClosed, stopRequested,
                  stopAt, ioIssued >>

\* ------------------------------------------------------------------- Running
\* 'timestamp': time.time() of collect_all_data (line 112), evaluated before
\* get_pv_data() is called; get_pv_data starts with an empty dict.
CaptureTimestamp ==
  /\ pc = "ts"
  /\ timestamp' = Val(Len(reads))
  /\ pc' = "pv"
  /\ UNCHANGED << variant, caller, bank, linkVars, idx, pv_data, status_data,
                  message_json, reads, raw, pubState, endVars,
                  stopRequested, stopAt, ioIssued >>

\* A collector that reads at the documented address itself.
ReadAddressNoOffset(e) == e.address

\* The protocol address the collector reads entry e at.
ReadAddress(e) == e.address - 1

\* Where control goes when get_pv_data / get_data has returned.
AfterPv(v) == IF v = "tcp" THEN "status" ELSE "dumps"

\* One iteration of the for loop of get_pv_data (78-89) / get_data (65-76).
ReadField ==
  /\ pc = "pv"
  /\ \E outcome \in ReadOutcomes :
       LET e == PvRegisters(variant)[idx]
           r == read_registers(client, devLink, bank, ReadAddress(e), e.count, outcome)
           last == idx = Len(PvRegisters(variant))
       IN  IF r.raised
             THEN /\ Raise("Exception")
                  /\ NoCycle
                  /\ UNCHANGED startFail
           ELSE /\ pv_data' = StorePv(variant, pv_data, e, r.value)
                /\ raw' = DictSet(raw, e.name,
                     RawReading(client, devLink, bank, ReadAddress(e), e.count, outcome))
                /\ reads' = Append(reads, << ReadAddress(e), e.count >>)
                /\ idx' = IF last THEN 1 ELSE idx + 1
                /\ pc' = IF last THEN AfterPv(variant) ELSE "pv"
                /\ UNCHANGED << status_data, timestamp, message_json, pending,
                                exitCode, startFail >>
  /\ ioIssued' = TRUE
  /\ UNCHANGED << variant, caller, bank, linkVars, pubState, devClosed,
                  mqttClosed, stopRequested, stopAt >>

\* One iteration of the for loop of get_system_status (101-106).
ReadStatusField ==
  /\ pc = "status"
  /\ \E outcome \in ReadOutcomes :
       LET e == StatusRegisters(variant)[idx]
           r == read_registers(client, devLink, bank, ReadAddress(e), e.count, outcome)
           last == idx = Len(StatusRegisters(variant))
       IN  IF r.raised
             THEN /\ Raise("Exception")
                  /\ NoCycle
                  /\ UNCHANGED startFail
           ELSE /\ status_data' = StoreStatus(status_data, e, r.value)
                /\ raw' = DictSet(raw, e.name,
                     RawReading(client, devLink, bank, ReadAddress(e), e.count, outcome))
                /\ reads' = Append(reads, << ReadAddress(e), e.count >>)
                /\ idx' = IF last THEN 1 ELSE idx + 1
                /\ pc' = IF last THEN "dumps" ELSE "status"
                /\ UNCHANGED << pv_data, timestamp, message_json, pending,
                                exitCode, startFail >>
  /\ ioIssued' = TRUE
  /\ UNCHANGED << variant, caller, bank, linkVars, pubState, devClosed,
                  mqttClosed, stopRequested, stopAt >>

\* json.dumps on the values the collectors produce: None becomes null, a
\* number its decimal text, a dict an object with the same keys.
json_value(x) == IF x = None THEN << "null" >> ELSE << "number", x[1] >>

json_object(d) == [k \in DOMAIN d |-> json_value(d[k])]

\* The message of one cycle: json.dumps(data) with data = collect_all_data()
\* (tcp 111-115, 164), or json.dumps({"timestamp": ..., "inverter_data": data})
\* (rs485 113).
Payload(v, ts, pv, st) ==
  IF v = "tcp"
    THEN [timestamp |-> json_value(ts), pv_data |-> json_object(pv),
          system_status |-> json_object(st)]
  ELSE [timestamp |-> json_value(ts), inverter_data |-> json_object(pv)]

\* A payload stamped when it is serialized, in both variants.
PayloadTimeAtSerialize(v) == Val(Len(reads))

\* The time.time() the payload carries: the tcp variant took it in
\* collect_all_data, the rs485 variant takes it now, in the dict display of
\* line 113.
PayloadTime(v) == IF v = "tcp" THEN timestamp ELSE Val(Len(reads))

\* message_json = json.dumps(data) (tcp 164) / payload = json.dumps(...) (rs485 113).
Serialize ==
  /\ caller = "main"
  /\ pc = "dumps"
  /\ timestamp' = PayloadTime(variant)
  /\ message_json' = Val(Payload(variant, timestamp', pv_data, status_data))
  /\ pc' = "publish"
  /\ UNCHANGED << variant, caller, bank, linkVars, idx, pv_data, status_data,
                  reads, raw, pubState, endVars, stopRequested, stopAt, ioIssued >>

\* The publish call returns (the message is handed to the transport, its
\* acknowledgement still outstanding) or raises.  The program never reads the
\* session's state, so a session lost while it runs shows only in these
\* outcomes and in what the transport reports later.
PublishOutcomes == {"sent", "raise"}

\* A publish step that tries again with the same message when the call raises.
PublishRetries ==
  /\ caller = "main"
  /\ pc = "publish"
  /\ \E outcome \in PublishOutcomes :
       IF outcome = "raise"
         THEN /\ pubState' = "raised"
              /\ UNCHANGED << pc, cycleVars >>
       ELSE /\ pubState' = "inflight"
            /\ pc' = "sleep"
            /\ NoCycle
  /\ ioIssued' = TRUE
  /\ UNCHANGED << variant, caller, bank, linkVars, endVars, stopRequested,
                  stopAt >>

\* mqtt_connection.publish(...) (tcp 166-170) / mqttc.publish(...) (rs485 118).
\* The call's return value is dropped.  After the call nothing reads the
\* cycle's locals before the next iteration rebinds them.
Publish ==
  /\ caller = "main"
  /\ pc = "publish"
  /\ \E outcome \in PublishOutcomes :
       IF outcome = "raise"
         THEN /\ pubState' = "raised"
              /\ Raise("Exception")
       ELSE /\ pubState' = "inflight"
            /\ pc' = "sleep"
            /\ UNCHANGED << pending, exitCode >>
  /\ NoCycle
  /\ ioIssued' = TRUE
  /\ UNCHANGED << variant, caller, bank, linkVars, startFail, devClosed,
                  mqttClosed, stopRequested, stopAt >>

\* A loop that goes back to connect the device link when it finds it lost.
SleepThenReconnect ==
  /\ caller = "main"
  /\ pc = "sleep"
  /\ pc' = IF devLink = "Connected" THEN CycleStart(variant) ELSE "inv_connect"
  /\ pubState' = "none"
  /\ UNCHANGED << variant, caller, bank, linkVars, cycleVars, endVars,
                  stopRequested, stopAt, ioIssued >>

\* time.sleep(POLL_INTERVAL) returns and the while loop starts the next cycle.
Sleep ==
  /\ caller = "main"
  /\ pc = "sleep"
  /\ pc' = CycleStart(variant)
  /\ pubState' = "none"
  /\ UNCHANGED << variant, caller, bank, linkVars, cycleVars, endVars,
                  stopRequested, stopAt, ioIssued >>

\* A stop signal that only sets a flag for the loop to look at.
InterruptAsFlag ==
  /\ caller = "main"
  /\ pc # "done"
  /\ ~stopRequested
  /\ stopRequested' = TRUE
  /\ stopAt' = Append(stopAt, << pc, idx >>)
  /\ UNCHANGED << variant, caller, pc, bank, linkVars, cycleVars, pubState,
                  endVars, ioIssued >>

\* KeyboardInterrupt is raised in the main thread at whatever statement it is
\* executing: read_registers catches Exception only, so inside the try block
\* it reaches `except KeyboardInterrupt`; elsewhere in main() it is uncaught.
Interrupt ==
  /\ caller = "main"
  /\ pc # "done"
  /\ stopRequested' = TRUE
  /\ stopAt' = Append(stopAt, << pc, idx >>)
  /\ Raise("KeyboardInterrupt")
  /\ NoCycle
  /\ UNCHANGED << variant, caller, bank, linkVars, pubState, startFail,
                  devClosed, mqttClosed, ioIssued >>

\* ------------------------------------------------------------------ Draining
CloseOutcomes == {"ok", "raise"}

\* disconnect() of the device link: the tcp variant closes only if self.client
\* is set (40-42), the rs485 variant always (41); neither has a try.
disconnect(v, c, outcome) ==
  IF v = "tcp" /\ c = "None" THEN Return(None)
  ELSE IF outcome = "raise" THEN Raised
  ELSE Return(None)

\* The link after disconnect(): closed when close() ran to its end.
DisconnectEffect(v, c, link, outcome) ==
  IF (v = "tcp" /\ c = "None") \/ outcome = "raise" THEN link ELSE "Disconnected"

\* What a call of disconnect() did.
DisconnectCall(v, c, link, outcome) ==
  [op |-> "disconnect",
   wasConnected |-> (link = "Connected"),
   raised |-> disconnect(v, c, outcome).raised]

\* finally: inverter.disconnect() (tcp 179, rs485 125).
DisconnectDevice ==
  /\ caller = "main"
  /\ pc = "finally_dev"
  /\ devClosed' = TRUE
  /\ \E outcome \in CloseOutcomes :
       /\ devLink' = DisconnectEffect(variant, client, devLink, outcome)
       /\ lastCall' = DisconnectCall(variant, client, devLink, outcome)
       /\ IF disconnect(variant, client, outcome).raised
            THEN Raise("Exception")
          ELSE /\ pc' = "finally_mqtt"
               /\ UNCHANGED exitCode
  /\ UNCHANGED << variant, caller, bank, client, mqttLink, connectOk, cycleVars,
                  pubState, pending, startFail, mqttClosed, stopRequested, stopAt, ioIssued >>

\* finally: mqtt_connection.disconnect().result() (tcp 180) / mqttc.disconnect()
\* (rs485 126); then main() returns, or the pending exception is re-raised.
DisconnectTransport ==
  /\ caller = "main"
  /\ pc = "finally_mqtt"
  /\ mqttClosed' = TRUE
  /\ \E outcome \in CloseOutcomes :
       IF outcome = "raise"
         THEN /\ Raise("Exception")
              /\ UNCHANGED mqttLink
       ELSE /\ mqttLink' = "Disconnected"
            /\ pc' = "done"
            /\ exitCode' = IF pending = "none" THEN 0 ELSE 1
  /\ UNCHANGED << variant, caller, bank, client, devLink, connectOk, lastCall,
                  cycleVars, pubState, pending, startFail, devClosed,
                  stopRequested, stopAt, ioIssued >>

\* --------------------------------------------------------------- environment
\* The transport reports the outcome of the publish in flight.
TransportAck ==
  /\ pubState = "inflight"
  /\ pc # "done"
  /\ \E r \in {"acked", "failed"} : pubState' = r
  /\ UNCHANGED << variant, caller, pc, bank, linkVars, cycleVars, endVars,
                  stopRequested, stopAt, ioIssued >>

\* The device connection is lost while the process runs.
DeviceDrop ==
  /\ pc \in RunningPcs \cup {"idle"}
  /\ devLink = "Connected"
  /\ devLink' = "Disconnected"
  /\ UNCHANGED << variant, caller, pc, bank, client, mqttLink, connectOk,
                  lastCall, cycleVars, pubState, endVars, stopRequested, stopAt,
                  ioIssued >>

Next ==
  \/ MqttConnect
  \/ InverterConnect
  \/ CaptureTimestamp
  \/ ReadField
  \/ ReadStatusField
  \/ Serialize
  \/ Publish
  \/ Sleep
  \/ Interrupt
  \/ DisconnectDevice
  \/ DisconnectTransport
  \/ TransportAck
  \/ DeviceDrop

Spec == Init /\ [][Next]_vars

\* -------------------------------------------------- the device link on its own
\* The device-link class driven method by method by an arbitrary caller:
\* connect(), disconnect() and the collector, in any order and any number of
\* times, starting from a freshly constructed object.
InitApi ==
  /\ InitCommon
  /\ caller = "api"
  /\ pc = "idle"
  /\ client = IF variant = "tcp" THEN "None" ELSE "client"

ApiConnect ==
  /\ caller = "api"
  /\ pc = "idle"
  /\ \E o \in ConnectOutcomes :
       LET outcome == LibConnect(variant, devLink, o)
       IN  /\ ConnectEffect(outcome)
           /\ IF connect(variant, outcome).raised
                THEN Raise("Exception")
              ELSE UNCHANGED << pc, pending, exitCode >>
  /\ UNCHANGED << variant, caller, bank, mqttLink, cycleVars, pubState, startFail,
                  devClosed, mqttClosed, stopRequested, stopAt, ioIssued >>

ApiDisconnect ==
  /\ caller = "api"
  /\ pc = "idle"
  /\ devClosed' = TRUE
  /\ \E outcome \in CloseOutcomes :
       /\ devLink' = DisconnectEffect(variant, client, devLink, outcome)
       /\ lastCall' = DisconnectCall(variant, client, devLink, outcome)
       /\ IF disconnect(variant, client, outcome).raised
            THEN Raise("Exception")
          ELSE UNCHANGED << pc, pending, exitCode >>
  /\ UNCHANGED << variant, caller, bank, client, mqttLink, connectOk, cycleVars,
                  pubState, startFail, mqttClosed, stopRequested, stopAt, ioIssued >>

\* The caller invokes collect_all_data() (tcp) / get_data() (rs485).
ApiCollect ==
  /\ caller = "api"
  /\ pc = "idle"
  /\ pc' = CycleStart(variant)
  /\ lastCall' = NoCall
  /\ UNCHANGED << variant, caller, bank, client, devLink, mqttLink, connectOk,
                  cycleVars, pubState, endVars, stopRequested, stopAt, ioIssued >>

\* The collector has returned its snapshot and the caller drops it.
ApiReturn ==
  /\ caller = "api"
  /\ pc = "dumps"
  /\ pc' = "idle"
  /\ NoCycle
  /\ UNCHANGED << variant, caller, bank, linkVars, pubState, endVars,
                  stopRequested, stopAt, ioIssued >>

NextApi ==
  \/ ApiConnect
  \/ ApiDisconnect
  \/ ApiCollect
  \/ CaptureTimestamp
  \/ ReadField
  \/ ReadStatusField
  \/ ApiReturn
  \/ DeviceDrop

SpecApi == InitApi /\ [][NextApi]_vars

\* ===================================================================== claims
\* The entries of the register maps of the running variant.
PvEntries == { PvRegisters(variant)[i] : i \in 1..Len(PvRegisters(variant)) }

StatusEntries == { StatusRegisters(variant)[i] : i \in 1..Len(StatusRegisters(variant)) }

\* The collector(s) have returned and the snapshot is whole.
Collected == pc \in {"dumps", "publish"}

Absent(d) == { k \in DOMAIN d : d[k] = None }

\* (hi * 65536 + lo) * scale by multiplication and addition.
Composed(hi, lo, scale) ==
  BigMul(BigAdd(BigMul(BigMul(ToBig(hi), 256), 256), ToBig(lo)), scale)

\* The words the device model serves.
SampleSet == { SampleWords[i] : i \in 1..Len(SampleWords) }

IsNatural(b) == Len(b) >= 1 /\ \A i \in 1..Len(b) : b[i] \in 0..(Base - 1)

\* C1 (as claimed): while Running, no error of a cycle's step ends the loop;
\* the only step that leaves Running is the one that delivers a stop signal.
C1_OnlyStopLeavesRunning ==
  [][(pc \in RunningPcs /\ pc' \notin RunningPcs) => stopRequested']_vars

\* C2 (as claimed): after a failed publish, raised by the call or reported by
\* the transport, and without a stop signal, the Supervisor is still in its
\* loop, on the way to the next cycle's publish.
C2_FailedPublishKeepsLooping ==
  (caller = "main" /\ pubState \in {"raised", "failed"} /\ ~stopRequested)
    => pc \in RunningPcs

\* C3: whatever the pattern of read outcomes, the snapshot a collector returns
\* (and the payload built from it) has exactly the names of its register map.
C3_SnapshotHasEveryName ==
  /\ (pc \in {"status", "dumps", "publish"})
       => DOMAIN pv_data = Names(PvRegisters(variant))
  /\ Collected => DOMAIN status_data = Names(StatusRegisters(variant))
  /\ (pc = "publish" /\ variant = "tcp") =>
       /\ DOMAIN message_json[1].pv_data = Names(PvRegistersTcp)
       /\ DOMAIN message_json[1].system_status = Names(StatusRegistersTcp)
  /\ (pc = "publish" /\ variant = "rs485") =>
       DOMAIN message_json[1].inverter_data = Names(PvRegistersRs485)

C3_Witness ==
  /\ pc = "publish"
  /\ Absent(pv_data) # {}
  /\ Absent(pv_data) # DOMAIN pv_data

\* C4: on a device link whose connect() was never called or never succeeded,
\* read_registers returns None for every request, and the collector returns
\* with every field None and raises nothing to its caller.
C4_NeverConnectedState ==
  ~connectOk =>
    /\ \A e \in PvEntries \cup StatusEntries : \A outcome \in ReadOutcomes :
         read_registers(client, devLink, bank, ReadAddress(e), e.count, outcome)
           = Return(None)
    /\ Absent(pv_data) = DOMAIN pv_data
    /\ Absent(status_data) = DOMAIN status_data
    /\ Collected =>
         /\ DOMAIN pv_data = Names(PvRegisters(variant))
         /\ DOMAIN status_data = Names(StatusRegisters(variant))

C4_NeverConnectedAllAbsent ==
  /\ []C4_NeverConnectedState
  /\ [][(~connectOk /\ pc \in CollectPcs) => pc' \in RunningPcs]_vars

C4_Witness ==
  /\ caller = "api"
  /\ ~connectOk
  /\ pc = "dumps"
  /\ Absent(pv_data) = Names(PvRegisters(variant))

\* C5: in a collect cycle each field is None exactly when its own request
\* failed and otherwise holds the decoding of its own registers; a step of the
\* collector never changes a field stored before, and no failure leaves the
\* collector (only a stop signal ends a collect before its last field).
C5_FieldState ==
  /\ DOMAIN raw = (DOMAIN pv_data) \cup (DOMAIN status_data)
  /\ \A e \in PvEntries : e.name \in DOMAIN pv_data =>
       /\ raw[e.name] \in {None, Val(DeviceRegisters(bank, e.address - 1, e.count))}
       /\ (pv_data[e.name] = None) <=> (raw[e.name] = None)
       /\ raw[e.name] # None =>
            pv_data[e.name] = Val(DecodeValue(raw[e.name][1], e.count, e.scale))
  /\ \A e \in StatusEntries : e.name \in DOMAIN status_data =>
       /\ raw[e.name] \in {None, Val(DeviceRegisters(bank, e.address - 1, e.count))}
       /\ (status_data[e.name] = None) <=> (raw[e.name] = None)
       /\ raw[e.name] # None => status_data[e.name] = Val(raw[e.name][1][1])

C5_FieldsIndependent ==
  /\ []C5_FieldState
  /\ [][ /\ \A k \in (DOMAIN pv_data) \cap (DOMAIN pv_data') : pv_data'[k] = pv_data[k]
         /\ \A k \in (DOMAIN status_data) \cap (DOMAIN status_data') :
              status_data'[k] = status_data[k]
         /\ (pc \in CollectPcs /\ ~stopRequested') =>
              /\ pc' \in RunningPcs
              /\ DOMAIN pv_data \subseteq DOMAIN pv_data'
              /\ DOMAIN status_data \subseteq DOMAIN status_data' ]_vars

C5_Witness ==
  /\ pc = "pv"
  /\ idx = 3
  /\ pv_data["dc_voltage"] = None
  /\ pv_data["dc_current"] # None

\* C6: a two-register field whose read succeeded with the words hi, lo holds
\* (hi * 65536 + lo) * scale, a non-negative number with the first word as the
\* high-order half; the words [1, 2] with scale 1 give 65538.  (The second
\* conjunct does not depend on the state and is evaluated in the initial
\* states only: the composition on every pair of sample words.)
C6_TwoRegisterDecode ==
  /\ DecodeValue(<< 1, 2 >>, 2, 100) = ToBig(6553800)
  /\ pc = FirstPc(variant) =>
       \A e \in PvEntries : \A hi \in SampleSet : \A lo \in SampleSet :
         e.count = 2 =>
           DecodeValue(<< hi, lo >>, e.count, e.scale) = Composed(hi, lo, e.scale)
  /\ \A e \in PvEntries : (e.count = 2 /\ e.name \in DOMAIN pv_data) =>
       (raw[e.name] # None =>
          LET hi == raw[e.name][1][1]
              lo == raw[e.name][1][2]
          IN  /\ pv_data[e.name] = Val(Composed(hi, lo, e.scale))
              /\ IsNatural(pv_data[e.name][1]))

C6_Witness ==
  /\ variant = "tcp"
  /\ pc = "dumps"
  /\ raw["dc_power"] = Val(<< 1, 2 >>)
  /\ pv_data["dc_power"] = Val(ToBig(6553800))
  /\ raw["ac_power"] = Val(<< 65535, 32768 >>)
  /\ pv_data["ac_power"] # None

\* C7: a failed read is stored as None, never as the number 0; a successful
\* read is stored as a number, 0 when its words are 0 or its scale is 0; a
\* one-register field holds raw[0] * scale.  (The first conjunct does not
\* depend on the state and is evaluated in the initial states only.)
C7_AbsentIsNotZero ==
  /\ pc = FirstPc(variant) =>
       \A w \in SampleSet : \A scale \in {0, 1, 10, 100} :
         LET e == [name |-> "x", address |-> 1, count |-> 1, scale |-> scale]
         IN  /\ PvValue(variant, e, Val(<< w >>)) = Val(ToBig(w * scale))
             /\ PvValue(variant, e, None) = None
  /\ \A e \in PvEntries : e.name \in DOMAIN pv_data =>
       /\ raw[e.name] = None => pv_data[e.name] = None
       /\ raw[e.name] # None =>
            /\ pv_data[e.name] # None
            /\ e.count = 1 => pv_data[e.name] = Val(ToBig(raw[e.name][1][1] * e.scale))
            /\ (\A i \in 1..e.count : raw[e.name][1][i] = 0)
                 => pv_data[e.name] = Val(ToBig(0))
  /\ \A e \in StatusEntries : e.name \in DOMAIN status_data =>
       /\ raw[e.name] = None => status_data[e.name] = None
       /\ raw[e.name] # None => status_data[e.name] = Val(raw[e.name][1][1])

C7_Witness ==
  /\ bank = 0
  /\ pc = "dumps"
  /\ raw["dc_voltage"] # None
  /\ pv_data["dc_voltage"] = Val(ToBig(0))
  /\ pv_data["dc_current"] = None
  /\ raw["ac_power"] = Val(<< 0, 0 >>)
  /\ pv_data["ac_power"] = Val(ToBig(0))

\* C8: once the connect of either link has failed in Starting, the process is
\* over and no register read and no publish was or will be issued.
C8_NoPartialStart ==
  startFail # "none" => (pc = "done" /\ ~ioIssued /\ pubState = "none")

C8_Witness ==
  /\ variant = "tcp"
  /\ startFail = "device"
  /\ mqttLink = "Connected"
  /\ pc = "done"

\* An operator stop was taken in Running and both disconnects completed.
CleanShutdown ==
  /\ pc = "done"
  /\ stopRequested
  /\ devClosed
  /\ mqttClosed
  /\ mqttLink = "Disconnected"

\* C9 (as claimed): the exit status is 0 after a clean operator-requested
\* shutdown and non-zero whenever the connect of either link failed.
C9_ExitStatusTellsStartupFailure ==
  /\ CleanShutdown => exitCode = 0
  /\ (pc = "done" /\ startFail # "none") => exitCode # 0

\* C10: a stop signal in Running takes the Supervisor to Draining; Draining
\* only ends in Stopped; the device link's disconnect is invoked before the
\* transport's; and nothing happens once Stopped.
C10_DrainOrder ==
  /\ [](mqttClosed => devClosed)
  /\ [][(pc \in RunningPcs /\ stopRequested') => pc' = "finally_dev"]_vars
  /\ [][pc = "finally_dev" => pc' \in {"finally_dev", "finally_mqtt", "done"}]_vars
  /\ [][(pc = "finally_dev" /\ pc' = "finally_mqtt") => devClosed']_vars
  /\ [][pc = "finally_mqtt" => pc' \in {"finally_mqtt", "done"}]_vars
  /\ [][pc # "done"]_vars

C10_Witness ==
  /\ pc = "done"
  /\ stopRequested
  /\ devClosed
  /\ mqttClosed
  /\ exitCode = 0

\* A stop signal arrived while main() was in its finally block.
DrainInterrupted == \E i \in 1..Len(stopAt) : stopAt[i][1] \in DrainingPcs

\* C11 (as claimed): disconnect() of the device link never raises to its
\* caller, so once it has been called in Draining the process does not end
\* before the transport's disconnect was attempted too.
C11_DeviceDisconnectNeverRaises ==
  lastCall.op = "disconnect" =>
    /\ ~lastCall.raised
    /\ (pc = "done" /\ ~DrainInterrupted) => mqttClosed

\* The stop signal found main() between two cycles: in the sleep, or about to
\* execute the first statement of a cycle.
AtCycleBoundary(at) ==
  \/ at[1] = "sleep"
  \/ at[1] = "ts"
  \/ (variant = "rs485" /\ at[1] = "pv" /\ at[2] = 1)

C13_StopInSleepDrainsBothLinks ==
  [][(Len(stopAt') = 1 /\ stopAt'[1][1] = "sleep") =>
       /\ pc' \in DrainingPcs \cup {"done"}
       /\ (devClosed' # devClosed \/ mqttClosed' # mqttClosed)
            => pubState # "inflight"
       /\ pc' = "done" => (devClosed' /\ mqttClosed' /\ mqttLink' = "Disconnected")
  ]_vars

\* C14 (as claimed): connect() of the device link called while the link is
\* Connected returns success and changes nothing: the client object is kept
\* and no connection is opened.
C14_ConnectIdempotent ==
  (lastCall.op = "connect" /\ lastCall.wasConnected) =>
    /\ ~lastCall.raised
    /\ lastCall.result = TRUE
    /\ ~lastCall.replaced
    /\ ~lastCall.opened
    /\ devLink = "Connected"

\* C15 (as claimed): the publish step ends only when the transport has
\* confirmed the message or given up, so main() is never past its publish
\* call (asleep, in the next cycle or disconnecting) with that publish still
\* unacknowledged.
C15_PublishAwaited == pubState # "inflight"

\* The register-map entries of one cycle, in the order the collectors read.
AllEntries == PvRegisters(variant) \o StatusRegisters(variant)

\* The statements of a cycle that hold its snapshot: after the collectors,
\* up to the publish call.
SnapshotPcs == {"dumps", "publish"}

\* The shape of the cycles: the reads of a cycle are issued by its collectors
\* only and are all done before the snapshot is serialized and published; a
\* publish is issued by the publish statement only, at most once per cycle;
\* the sleep follows a publish; and a cycle begins only after the sleep of
\* the one before (or after Starting).
C16_Shape ==
  /\ [](pc \in SnapshotPcs => Len(reads) = Len(AllEntries))
  /\ [](pc \in CollectPcs \cup SnapshotPcs => pubState = "none")
  /\ [](pc = "sleep" => (pubState # "none" /\ reads = << >>))
  /\ [][(reads' # reads /\ reads' # << >>) => (pc \in CollectPcs /\ pc' \in CollectPcs \cup {"dumps"})]_vars
  /\ [][(pubState = "none" /\ pubState' # "none") => pc = "publish"]_vars
  /\ [][(pc = "publish" /\ pc' # "publish") => pc' \notin CollectPcs \cup {"dumps"}]_vars
  /\ [][(pc' = CycleStart(variant) /\ pc' # pc) => pc \in StartingPcs \cup {"sleep"}]_vars

StampedAt(v) == IF v = "tcp" THEN 0 ELSE Len(PvRegisters(v))

\* C17 (as claimed): in both variants the timestamp of a cycle is taken at
\* the start of the cycle, before the first register read.
C17_TimestampAtCycleStart == timestamp # None => timestamp = Val(0)

\* C17 (amended): the timestamp is taken exactly once per cycle, never per
\* field: before the first register read in the tcp variant, after the last
\* register read (when the payload is built) in the rs485 variant; the
\* message carries that one value.
C17_TimestampOncePerCycle ==
  /\ [](timestamp # None => timestamp = Val(StampedAt(variant)))
  /\ [][timestamp # None => timestamp' \in {timestamp, None}]_vars
  /\ [](message_json # None =>
          (timestamp # None /\ message_json[1].timestamp = json_value(timestamp)))

C17_Witness ==
  /\ variant = "rs485"
  /\ pc = "publish"
  /\ timestamp = Val(Len(PvRegisters("rs485")))
  /\ Len(reads) = Len(PvRegisters("rs485"))

\* C18: connect is invoked only in Starting and Starting is never re-entered;
\* once past Starting each link only goes from Connected to Disconnected,
\* never back.
C18_NoReconnectInRunning ==
  /\ [][pc' \in StartingPcs => pc \in StartingPcs]_vars
  /\ [][(lastCall' # lastCall /\ lastCall'.op = "connect")
          => (pc = "inv_connect" /\ ~ioIssued)]_vars
  /\ [][pc \notin StartingPcs =>
          /\ (devLink' = "Connected" => devLink = "Connected")
          /\ (mqttLink' = "Connected" => mqttLink = "Connected")]_vars

C18_Witness ==
  /\ pc = "sleep"
  /\ connectOk
  /\ devLink = "Disconnected"
  /\ mqttLink = "Connected"
  /\ pubState = "inflight"

\* C19: the reads of a cycle are one per register-map entry, in map order,
\* the read for an entry of address a and count c at protocol address a - 1
\* with count c (dc_voltage, documented at 40001, is read at 40000 with count
\* 1); a failed read is not issued again.
C19_OneReadPerEntry ==
  /\ Len(reads) <= Len(AllEntries)
  /\ \A i \in 1..Len(reads) :
       reads[i] = << AllEntries[i].address - 1, AllEntries[i].count >>
  /\ Collected => Len(reads) = Len(AllEntries)
  /\ (Len(reads) >= 1) =>
       (AllEntries[1].name = "dc_voltage" /\ reads[1] = << 40000, 1 >>)

C19_Witness ==
  /\ pc = "dumps"
  /\ pv_data["dc_voltage"] = None
  /\ Len(reads) = Len(AllEntries)
  /\ reads[1] = << 40000, 1 >>

\* C20 (as claimed): when main() has ended, by whatever path, the disconnect
\* of every link whose connect succeeded has been invoked.
C20_NoLinkLeftOpen ==
  pc = "done" =>
    /\ connectOk => devClosed
    /\ mqttLink = "Connected" => mqttClosed

====
